---------------------------- MODULE Spec2Model ----------------------------
(***************************************************************************)
(* A model of the back end of the two-pass MIPS assembler:                 *)
(*   src/src/tables.c           symbol / relocation tables                 *)
(*   src/src/translate_utils.c  token validators and line writers          *)
(*   src/src/translate.c        pass 1 (pseudo-instruction expansion) and  *)
(*                              pass 2 (instruction encoding)              *)
(*                                                                         *)
(* Machine integers keep their width.  TLC's integers are 32-bit signed,   *)
(* so a uint32_t is a pair <<hi, lo>> of 16-bit limbs and a long (64-bit)  *)
(* is a sign and four 16-bit limbs of magnitude.  C strings are TLA+       *)
(* strings, read one character at a time with SubSeq.                      *)
(***************************************************************************)
EXTENDS Integers, Sequences, FiniteSets, TLC

VARIABLES
    tables,   \* the heap of SymbolTables: handle -> table object
    output,   \* the FILE* every writer is handed: the lines written so far
    last,     \* the most recent call: its arguments, return value, and the
              \* state it started from
    log       \* history: the add_to_table calls that returned 0 and the jumps
              \* translate_inst reported as encoded, in call order

vars == <<tables, output, last, log>>

(***************************************************************************)
(* Pointers.  A null pointer is the reserved string NULL: it is no token,  *)
(* no name and no table handle.                                            *)
(***************************************************************************)
NULL == "<null>"

\* the value a call "returns" when the process dies inside it
CRASH == 0 - 99

(***************************************************************************)
(* uint32_t: <<hi, lo>>, value hi * 2^16 + lo.                             *)
(***************************************************************************)
Limb == 2^16

U32(n) == <<(n \div Limb) % Limb, n % Limb>>

Add32(a, b) ==
    LET lo == a[2] + b[2]
    IN  <<(a[1] + b[1] + (lo \div Limb)) % Limb, lo % Limb>>

Sub32(a, b) ==
    LET lo == a[2] - b[2]
    IN  <<(a[1] - b[1] + (lo \div Limb)) % Limb, lo % Limb>>

\* unsigned division by 4
DivU4(a) == <<a[1] \div 4, ((a[1] % 4) * Limb + a[2]) \div 4>>

\* the value of the 32 bits read as int32_t (two's complement)
Int32Val(a) ==
    IF a[1] >= 32768 THEN (a[1] - Limb) * Limb + a[2] ELSE a[1] * Limb + a[2]

\* a 32-bit word from the sum of the fields above bit 16 (in units of 2^16)
\* and the sum of the fields below it, reduced modulo 2^32
MkWord(hiSum, loSum) == <<(hiSum + (loSum \div Limb)) % Limb, loSum % Limb>>

HexDigit(d) == SubSeq("0123456789abcdef", d + 1, d + 1)

Hex4(n) ==
    HexDigit(n \div 4096) \o HexDigit((n \div 256) % 16)
        \o HexDigit((n \div 16) % 16) \o HexDigit(n % 16)

RECURSIVE DecNat(_)
\* the decimal digits of a natural number below 2^31
DecNat(n) == IF n < 10 THEN HexDigit(n) ELSE DecNat(n \div 10) \o HexDigit(n % 10)

RECURSIVE DecLimbs(_)
\* the decimal digits of the natural number whose base-2^16 limbs, most
\* significant first, are ls: long division by 10, limb by limb
DecLimbs(ls) ==
    LET Step(acc, limb) ==      \* acc = <<quotient limbs so far, remainder>>
            LET cur == acc[2] * Limb + limb
            IN  <<Append(acc[1], cur \div 10), cur % 10>>
        Fold[i \in 0..Len(ls)] ==
            IF i = 0 THEN <<(<< >>), 0>> ELSE Step(Fold[i - 1], ls[i])
        q == Fold[Len(ls)][1]
        r == Fold[Len(ls)][2]
    IN  IF \A i \in 1..Len(q) : q[i] = 0
        THEN HexDigit(r)
        ELSE DecLimbs(q) \o HexDigit(r)

\* printf("%u", a)
FmtU32(a) == DecLimbs(a)

(***************************************************************************)
(* tables.c                                                                *)
(***************************************************************************)
SYMTBL_NON_UNIQUE == 0
SYMTBL_UNIQUE_NAME == 1
INITIAL_SIZE == 5
SCALING_FACTOR == 2

\* A slot of the backing array that malloc/realloc handed out and nothing has
\* written yet.  Its content is indeterminate; no function of tables.c reads a
\* slot at or beyond len, so one placeholder stands for it.
Uninit == [name |-> NULL, addr |-> <<0, 0>>]

\* realloc as a bug would have it: the last old slot is not carried over
realloc_drops_slot(tbl, count) ==
    [i \in 1..count |-> IF i < Len(tbl) THEN tbl[i] ELSE Uninit]

\* realloc(tbl, count * sizeof(Symbol)): the old slots, then fresh ones
realloc(tbl, count) ==
    [i \in 1..count |-> IF i <= Len(tbl) THEN tbl[i] ELSE Uninit]

create_table(mode) ==
    [tbl |-> [i \in 1..INITIAL_SIZE |-> Uninit],
     len |-> 0, cap |-> INITIAL_SIZE, mode |-> mode]

\* strcmp(a, b) == 0
StrEq(a, b) == a = b

\* write_symbol's line: "%u\t%s\n"
write_symbol(addr, name) == FmtU32(addr) \o "\t" \o name \o "\n"

\* The table a handle points to lives in the heap tabs; NULL points nowhere.

\* add_to_table as a bug would have it: the new record takes the first slot
\* and the record that was there moves to the end
add_to_table_front(tabs, h, name, addr) ==
    IF h = NULL \/ name = NULL
    THEN [ret |-> -1, tables |-> tabs]
    ELSE LET t == tabs[h] IN
    IF addr[2] % 4 # 0
    THEN [ret |-> -1, tables |-> tabs]
    ELSE IF t.mode = SYMTBL_UNIQUE_NAME
            /\ \E i \in 1..t.len : StrEq(t.tbl[i].name, name)
    THEN [ret |-> -1, tables |-> tabs]
    ELSE LET grown == IF t.len = t.cap
                      THEN [t EXCEPT !.tbl = realloc(t.tbl, t.len * SCALING_FACTOR),
                                     !.cap = t.cap * SCALING_FACTOR]
                      ELSE t
             stored == [grown EXCEPT
                            !.tbl[t.len + 1] = t.tbl[1],
                            !.tbl[1] = [name |-> name, addr |-> addr],
                            !.len = t.len + 1]
         IN  [ret |-> 0, tables |-> [tabs EXCEPT ![h] = stored]]

\* add_to_table as a bug would have it: the duplicate check ignores the mode
add_to_table_any_mode(tabs, h, name, addr) ==
    IF h = NULL \/ name = NULL
    THEN [ret |-> -1, tables |-> tabs]
    ELSE LET t == tabs[h] IN
    IF addr[2] % 4 # 0 \/ \E i \in 1..t.len : StrEq(t.tbl[i].name, name)
    THEN [ret |-> -1, tables |-> tabs]
    ELSE LET grown == IF t.len = t.cap
                      THEN [t EXCEPT !.tbl = realloc(t.tbl, t.len * SCALING_FACTOR),
                                     !.cap = t.cap * SCALING_FACTOR]
                      ELSE t
             stored == [grown EXCEPT
                            !.tbl[t.len + 1] = [name |-> name, addr |-> addr],
                            !.len = t.len + 1]
         IN  [ret |-> 0, tables |-> [tabs EXCEPT ![h] = stored]]

\* add_to_table(h, name, addr): the return value and the heap afterwards.
\* C's tbl[i] is tbl[i + 1] here.  allocation_failed() exits the process; the
\* model's allocations succeed.
add_to_table(tabs, h, name, addr) ==
    IF h = NULL \/ name = NULL
    THEN [ret |-> -1, tables |-> tabs]
    ELSE LET t == tabs[h] IN
    IF addr[2] % 4 # 0
    THEN [ret |-> -1, tables |-> tabs]
    ELSE IF t.mode = SYMTBL_UNIQUE_NAME
            /\ \E i \in 1..t.len : StrEq(t.tbl[i].name, name)
    THEN [ret |-> -1, tables |-> tabs]
    ELSE LET grown == IF t.len = t.cap
                      THEN [t EXCEPT !.tbl = realloc(t.tbl, t.len * SCALING_FACTOR),
                                     !.cap = t.cap * SCALING_FACTOR]
                      ELSE t
             stored == [grown EXCEPT
                            !.tbl[t.len + 1] = [name |-> name, addr |-> addr],
                            !.len = t.len + 1]
         IN  [ret |-> 0, tables |-> [tabs EXCEPT ![h] = stored]]

\* int64_t: <<top, hi, lo>>, value top * 2^32 + hi * 2^16 + lo, top in {-1, 0}
I64OfU32(a) == <<0, a[1], a[2]>>
I64MinusOne == <<-1, 65535, 65535>>

\* get_addr_for_symbol as a bug would have it: the loop does not stop at the
\* first match, so the last one wins
get_addr_last_match(tabs, h, name) ==
    IF h = NULL THEN I64MinusOne
    ELSE LET t == tabs[h]
             hits == {i \in 1..t.len : StrEq(t.tbl[i].name, name)}
         IN  IF hits = {} THEN I64MinusOne
             ELSE I64OfU32(t.tbl[CHOOSE i \in hits : \A j \in hits : i >= j].addr)

\* get_addr_for_symbol: the addr of the first slot whose name matches, as an
\* int64_t, or -1
get_addr_for_symbol(tabs, h, name) ==
    IF h = NULL THEN I64MinusOne
    ELSE LET t == tabs[h]
             hits == {i \in 1..t.len : StrEq(t.tbl[i].name, name)}
         IN  IF hits = {} THEN I64MinusOne
             ELSE I64OfU32(t.tbl[CHOOSE i \in hits : \A j \in hits : i <= j].addr)

\* write_table: the lines it writes, slot 0 to slot len - 1
write_table(tabs, h) ==
    LET t == tabs[h]
    IN  [i \in 1..t.len |-> write_symbol(t.tbl[i].addr, t.tbl[i].name)]

(***************************************************************************)
(* long (64-bit, two's complement): [neg, mag] with mag the magnitude as   *)
(* four 16-bit limbs, most significant first.  Zero has neg = FALSE.       *)
(***************************************************************************)
LongOfInt(n) ==
    LET m == IF n < 0 THEN 0 - n ELSE n
    IN  [neg |-> n < 0, mag |-> <<0, 0, m \div Limb, m % Limb>>]

\* A long local before anything is stored in it.  Its content is indeterminate;
\* every path of translate.c that leaves it unset returns before reading it.
Unset == [neg |-> FALSE, mag |-> <<0, 0, 0, 0>>]

LONG_MAX == [neg |-> FALSE, mag |-> <<32767, 65535, 65535, 65535>>]
LONG_MIN == [neg |-> TRUE, mag |-> <<32768, 0, 0, 0>>]
INT16_MIN == LongOfInt(0 - 32768)
INT16_MAX == LongOfInt(32767)
UINT16_MAX == LongOfInt(65535)

MagLT(x, y) ==
    \E i \in 1..4 : x[i] < y[i] /\ \A j \in 1..(i - 1) : x[j] = y[j]

\* a < b
LongLT(a, b) ==
    IF a.neg # b.neg THEN a.neg
    ELSE IF a.neg THEN MagLT(b.mag, a.mag)
    ELSE MagLT(a.mag, b.mag)

\* the value of a long that fits TLC's integers
IntOfLong(a) ==
    LET m == a.mag[3] * Limb + a.mag[4]
    IN  IF a.neg THEN 0 - m ELSE m

\* a >> 16 and a & 0xFFFF, for a >= 0
LongShr16(a) == [neg |-> FALSE, mag |-> <<0, a.mag[1], a.mag[2], a.mag[3]>>]
LongLow16(a) == [neg |-> FALSE, mag |-> <<0, 0, 0, a.mag[4]>>]

\* printf("%ld", a)
FmtLong(a) == (IF a.neg THEN "-" ELSE "") \o DecLimbs(a.mag)

(***************************************************************************)
(* translate_utils.c                                                       *)
(***************************************************************************)
\* str[i - 1] in C; the terminating NUL reads as ""
CharAt(str, i) == IF i <= Len(str) THEN SubSeq(str, i, i) ELSE ""

IsSpace(c) == c \in {" ", "\t", "\n", "\r", "\f"}

\* the value of a character as a digit; 99 for a character that is no digit
\* of any base up to 16
DigitVal(c) ==
    LET lower == "0123456789abcdef"
        upper == "0123456789ABCDEF"
        inLower == {d \in 1..16 : SubSeq(lower, d, d) = c}
        inUpper == {d \in 1..16 : SubSeq(upper, d, d) = c}
    IN  IF inLower # {} THEN (CHOOSE d \in inLower : TRUE) - 1
        ELSE IF inUpper # {} THEN (CHOOSE d \in inUpper : TRUE) - 1
        ELSE 99

RECURSIVE SkipSpace(_, _)
SkipSpace(str, i) == IF IsSpace(CharAt(str, i)) THEN SkipSpace(str, i + 1) ELSE i

\* mag * base + d in unsigned 64-bit arithmetic: <<limbs, overflowed>>
MulAdd(mag, base, d) ==
    LET t4 == mag[4] * base + d
        t3 == mag[3] * base + (t4 \div Limb)
        t2 == mag[2] * base + (t3 \div Limb)
        t1 == mag[1] * base + (t2 \div Limb)
    IN  <<(<<t1 % Limb, t2 % Limb, t3 % Limb, t4 % Limb>>), t1 >= Limb>>

RECURSIVE Accumulate(_, _, _, _, _)
\* the digits of str from position i on, in the given base:
\* [mag, overflow, end] with end the position of the first character not used
Accumulate(str, i, base, mag, overflow) ==
    LET d == DigitVal(CharAt(str, i))
    IN  IF d >= base
        THEN [mag |-> mag, overflow |-> overflow, end |-> i]
        ELSE LET next == MulAdd(mag, base, d)
             IN  Accumulate(str, i + 1, base, next[1], overflow \/ next[2])

\* strtol(str, &end, 0): white space, an optional sign, then octal after a
\* leading 0, hexadecimal after 0x, decimal otherwise, as far as the digits
\* go; 0 when there are none; LONG_MAX or LONG_MIN when the value does not
\* fit.  [val, end]: end is the position of the first character not consumed
\* (1 when no conversion was made).
strtol(str) ==
    LET s0 == SkipSpace(str, 1)
        negative == CharAt(str, s0) = "-"
        s1 == IF CharAt(str, s0) \in {"-", "+"} THEN s0 + 1 ELSE s0
        hex == /\ CharAt(str, s1) = "0"
               /\ CharAt(str, s1 + 1) \in {"x", "X"}
               /\ DigitVal(CharAt(str, s1 + 2)) < 16
        base == IF hex THEN 16 ELSE IF CharAt(str, s1) = "0" THEN 8 ELSE 10
        s2 == IF hex THEN s1 + 2 ELSE s1
        acc == Accumulate(str, s2, base, <<0, 0, 0, 0>>, FALSE)
        tooBig == \/ acc.overflow
                  \/ IF negative THEN MagLT(LONG_MIN.mag, acc.mag)
                                 ELSE MagLT(LONG_MAX.mag, acc.mag)
    IN  IF acc.end = s2
        THEN [val |-> LongOfInt(0), end |-> 1]
        ELSE IF tooBig
        THEN [val |-> IF negative THEN LONG_MIN ELSE LONG_MAX, end |-> acc.end]
        ELSE [val |-> [neg |-> negative /\ acc.mag # <<0, 0, 0, 0>>, mag |-> acc.mag],
              end |-> acc.end]

IsAlpha(c) ==
    \E d \in 1..26 : c \in {SubSeq("abcdefghijklmnopqrstuvwxyz", d, d),
                            SubSeq("ABCDEFGHIJKLMNOPQRSTUVWXYZ", d, d)}

IsAlnum(c) == IsAlpha(c) \/ \E d \in 1..10 : c = SubSeq("0123456789", d, d)

\* is_valid_label: a letter or underscore, then letters, digits, underscores
is_valid_label(str) ==
    /\ str # NULL
    /\ Len(str) > 0
    /\ IsAlpha(CharAt(str, 1)) \/ CharAt(str, 1) = "_"
    /\ \A i \in 2..Len(str) : IsAlnum(CharAt(str, i)) \/ CharAt(str, i) = "_"

\* translate_num(output, str, lower_bound, upper_bound), with old the content
\* of *output before the call: the return value and *output afterwards.  end
\* is set by strtol and never read.
translate_num(out, old, str, lower_bound, upper_bound) ==
    IF str = NULL \/ out = NULL
    THEN [ret |-> -1, output |-> old]
    ELSE LET sig_num == strtol(str).val
         IN  IF LongLT(sig_num, lower_bound) \/ LongLT(upper_bound, sig_num)
             THEN [ret |-> -1, output |-> old]
             ELSE [ret |-> 0, output |-> sig_num]

\* translate_reg: the register number, or -1
translate_reg(str) ==
    CASE str = "$zero" -> 0
      [] str = "$0" -> 0
      [] str = "$at" -> 1
      [] str = "$v0" -> 2
      [] str = "$a0" -> 4
      [] str = "$a1" -> 5
      [] str = "$a2" -> 6
      [] str = "$a3" -> 7
      [] str = "$t0" -> 8
      [] str = "$t1" -> 9
      [] str = "$t2" -> 10
      [] str = "$t3" -> 11
      [] str = "$s0" -> 16
      [] str = "$s1" -> 17
      [] str = "$s2" -> 18
      [] str = "$s3" -> 19
      [] str = "$sp" -> 29
      [] str = "$fp" -> 30
      [] str = "$ra" -> 31
      [] OTHER -> -1

\* write_inst_hex's line: "%08x\n"
write_inst_hex(instruction) == Hex4(instruction[1]) \o Hex4(instruction[2]) \o "\n"

RECURSIVE JoinArgs(_, _)
\* write_inst_string's " %s" for args[i - 1] onwards
JoinArgs(args, i) ==
    IF i > Len(args) THEN "" ELSE " " \o args[i] \o JoinArgs(args, i + 1)

\* write_inst_string's line
write_inst_string(name, args) == name \o JoinArgs(args, 1) \o "\n"

(***************************************************************************)
(* translate.c, pass 2.  num_args is Len(args).  A family encoder gives    *)
(* the set of its possible outcomes [ret, lines]: lines is what it wrote   *)
(* to output.  The set has one element unless the C is undefined.          *)
(* Shifts of a signed int that leave its range (opcode << 26 for an opcode *)
(* of 0x20 and more, rs << 21 for rs = -1) are the two's-complement shift  *)
(* of the target machines, reduced modulo 2^32 by the store to uint32_t.   *)
(***************************************************************************)
TWO_POW_SEVENTEEN == 131072

Failed == {[ret |-> -1, lines |-> << >>]}

Wrote(instruction) == {[ret |-> 0, lines |-> <<write_inst_hex(instruction)>>]}

AnyNull(args) == \E i \in 1..Len(args) : args[i] = NULL

write_rtype(funct, args) ==
    IF Len(args) # 3 \/ AnyNull(args) THEN Failed
    ELSE LET rd == translate_reg(args[1])
             rs == translate_reg(args[2])
             rt == translate_reg(args[3])
         IN  IF rd = -1 \/ rt = -1 \/ rs = -1 THEN Failed
             ELSE Wrote(MkWord(rt + rs * 32, funct + rd * 2048))

write_shift(funct, args) ==
    IF Len(args) # 3 \/ AnyNull(args) THEN Failed
    ELSE LET rd == translate_reg(args[1])
             rt == translate_reg(args[2])
             num == translate_num("&shamt", Unset, args[3], LongOfInt(0), LongOfInt(31))
             shamt == IntOfLong(num.output)
         IN  IF num.ret = -1 \/ rd = -1 \/ rt = -1 THEN Failed
             ELSE Wrote(MkWord(rt, funct + shamt * 64 + rd * 2048))

\* write_jr hands args[0] to translate_reg unchecked, and writes the word
\* before it looks at rs.  strcmp on a null pointer is undefined: the process
\* dies, or the comparison fails and rs is -1.
write_jr(funct, args) ==
    IF Len(args) # 1 THEN Failed
    ELSE LET rs == IF args[1] = NULL THEN -1 ELSE translate_reg(args[1])
             instruction == MkWord(rs * 32, funct)
             done == [ret |-> IF rs = -1 THEN -1 ELSE 0,
                      lines |-> <<write_inst_hex(instruction)>>]
         IN  IF args[1] = NULL
             THEN {[ret |-> CRASH, lines |-> << >>], done}
             ELSE {done}

write_addiu(opcode, args) ==
    IF Len(args) # 3 \/ AnyNull(args) THEN Failed
    ELSE LET rt == translate_reg(args[1])
             rs == translate_reg(args[2])
             num == translate_num("&imm", Unset, args[3], INT16_MIN, INT16_MAX)
             imm == IntOfLong(num.output)
         IN  IF num.ret = -1 \/ rt = -1 \/ rs = -1 THEN Failed
             ELSE Wrote(MkWord(rt + rs * 32 + opcode * 1024, imm % Limb))

write_ori(opcode, args) ==
    IF Len(args) # 3 \/ AnyNull(args) THEN Failed
    ELSE LET rt == translate_reg(args[1])
             rs == translate_reg(args[2])
             num == translate_num("&imm", Unset, args[3], LongOfInt(0), UINT16_MAX)
             imm == IntOfLong(num.output)
         IN  IF num.ret = -1 \/ rt = -1 \/ rs = -1 THEN Failed
             ELSE Wrote(MkWord(rt + rs * 32 + opcode * 1024, imm % Limb))

write_mult_div(funct, args) ==
    IF Len(args) # 2 \/ AnyNull(args) THEN Failed
    ELSE LET rs == translate_reg(args[1])
             rt == translate_reg(args[2])
         IN  IF rs = -1 \/ rt = -1 THEN Failed
             ELSE Wrote(MkWord(rt + rs * 32, funct))

write_mfhi_mflo(funct, args) ==
    IF Len(args) # 1 \/ AnyNull(args) THEN Failed
    ELSE LET rd == translate_reg(args[1])
         IN  IF rd = -1 THEN Failed
             ELSE Wrote(MkWord(0, funct + rd * 2048))

write_lui(opcode, args) ==
    IF Len(args) # 2 \/ AnyNull(args) THEN Failed
    ELSE LET rt == translate_reg(args[1])
             num == translate_num("&imm", Unset, args[2], LongOfInt(0), UINT16_MAX)
             imm == IntOfLong(num.output)
         IN  IF num.ret = -1 \/ rt = -1 THEN Failed
             ELSE Wrote(MkWord(rt + opcode * 1024, imm % Limb))

write_mem(opcode, args) ==
    IF Len(args) # 3 \/ AnyNull(args) THEN Failed
    ELSE LET rt == translate_reg(args[1])
             rs == translate_reg(args[3])
             num == translate_num("&imm", Unset, args[2], INT16_MIN, INT16_MAX)
             imm == IntOfLong(num.output)
         IN  IF num.ret = -1 \/ rt = -1 \/ rs = -1 THEN Failed
             ELSE Wrote(MkWord(rt + rs * 32 + opcode * 1024, imm % Limb))

\* can_branch_to as a bug would have it: one word further forward
can_branch_to_one_more(src_addr, dest_addr) ==
    LET diff == Int32Val(Sub32(dest_addr, src_addr))
    IN  \/ diff >= 0 /\ diff <= TWO_POW_SEVENTEEN + 4
        \/ diff < 0 /\ diff >= 0 - (TWO_POW_SEVENTEEN - 4)

\* can_branch_to as a bug would have it: the same reach in both directions
can_branch_to_symmetric(src_addr, dest_addr) ==
    LET diff == Int32Val(Sub32(dest_addr, src_addr))
    IN  \/ diff >= 0 /\ diff <= TWO_POW_SEVENTEEN
        \/ diff < 0 /\ diff >= 0 - TWO_POW_SEVENTEEN

\* can_branch_to: diff is the difference of the two uint32_t, modulo 2^32,
\* stored in an int32_t
can_branch_to(src_addr, dest_addr) ==
    LET diff == Int32Val(Sub32(dest_addr, src_addr))
    IN  \/ diff >= 0 /\ diff <= TWO_POW_SEVENTEEN
        \/ diff < 0 /\ diff >= 0 - (TWO_POW_SEVENTEEN - 4)

\* the low 32 bits of an int64_t: what the store to an int keeps
IntOfI64(v) == <<v[2], v[3]>>

\* write_branch.  label_addr is an int holding the low 32 bits of the
\* lookup's int64_t; label_addr - addr - 4 is computed in unsigned int
\* (addr is a uint32_t), divided by 4 there, and stored in an int32_t.
write_branch(opcode, args, addr, tabs, symtbl) ==
    IF Len(args) # 3 \/ AnyNull(args) THEN Failed
    ELSE LET rs == translate_reg(args[1])
             rt == translate_reg(args[2])
             label_addr == IntOfI64(get_addr_for_symbol(tabs, symtbl, args[3]))
             offset == DivU4(Sub32(Sub32(label_addr, addr), U32(4)))
         IN  IF \/ label_addr = <<65535, 65535>>
                \/ ~can_branch_to(addr, label_addr)
                \/ rt = -1
                \/ rs = -1
             THEN Failed
             ELSE Wrote(MkWord(rt + rs * 32 + opcode * 1024, offset[2]))

\* write_jump: outcomes [ret, lines, tables].  What add_to_table returns is
\* dropped.
write_jump(opcode, args, addr, tabs, reltbl) ==
    IF Len(args) # 1
    THEN {[ret |-> -1, lines |-> << >>, tables |-> tabs]}
    ELSE {[ret |-> 0,
           lines |-> <<write_inst_hex(MkWord(opcode * 1024, 0))>>,
           tables |-> add_to_table(tabs, reltbl, args[1], addr).tables]}

\* an encoder that touches no table
Pure(outcomes, tabs) ==
    {[ret |-> o.ret, lines |-> o.lines, tables |-> tabs] : o \in outcomes}

\* translate_inst: outcomes [ret, lines, tables].  output and args are never
\* null here.
translate_inst(tabs, name, args, addr, symtbl, reltbl) ==
    IF name = NULL \/ Len(args) = 0 THEN Pure(Failed, tabs)
    ELSE IF name \in {"beq", "bne"} /\ symtbl = NULL THEN Pure(Failed, tabs)
    ELSE IF name \in {"j", "jal"} /\ reltbl = NULL THEN Pure(Failed, tabs)
    ELSE CASE name = "addu" -> Pure(write_rtype(33, args), tabs)
           [] name = "or" -> Pure(write_rtype(37, args), tabs)
           [] name = "slt" -> Pure(write_rtype(42, args), tabs)
           [] name = "sltu" -> Pure(write_rtype(43, args), tabs)
           [] name = "sll" -> Pure(write_shift(0, args), tabs)
           [] name = "xor" -> Pure(write_rtype(38, args), tabs)
           [] name = "jr" -> Pure(write_jr(8, args), tabs)
           [] name = "addiu" -> Pure(write_addiu(9, args), tabs)
           [] name = "ori" -> Pure(write_ori(13, args), tabs)
           [] name = "lui" -> Pure(write_lui(15, args), tabs)
           [] name = "lb" -> Pure(write_mem(32, args), tabs)
           [] name = "lbu" -> Pure(write_mem(36, args), tabs)
           [] name = "lw" -> Pure(write_mem(35, args), tabs)
           [] name = "sb" -> Pure(write_mem(40, args), tabs)
           [] name = "sw" -> Pure(write_mem(43, args), tabs)
           [] name = "beq" -> Pure(write_branch(4, args, addr, tabs, symtbl), tabs)
           [] name = "bne" -> Pure(write_branch(5, args, addr, tabs, symtbl), tabs)
           [] name = "j" -> write_jump(2, args, addr, tabs, reltbl)
           [] name = "jal" -> write_jump(3, args, addr, tabs, reltbl)
           [] name = "mult" -> Pure(write_mult_div(24, args), tabs)
           [] name = "div" -> Pure(write_mult_div(26, args), tabs)
           [] name = "mfhi" -> Pure(write_mfhi_mflo(16, args), tabs)
           [] name = "mflo" -> Pure(write_mfhi_mflo(18, args), tabs)
           [] OTHER -> Pure(Failed, tabs)

(***************************************************************************)
(* translate.c, pass 1.                                                    *)
(***************************************************************************)
\* what an uninitialised long local may hold
Garbage == {LongOfInt(0), LongOfInt(65536)}

li_fits_inclusive(imm) == ~LongLT(LongOfInt(65536), imm)

\* write_pass_one's test on li's immediate: imm < 65536
li_fits(imm) == LongLT(imm, LongOfInt(65536))

Emitted(lines) == {[ret |-> Len(lines), lines |-> lines]}

\* write_pass_one(output, name, args, num_args), with argv the pointer args
\* and args the num_args strings it points to: the possible outcomes, each
\* the return value and the lines written
write_pass_one(name, argv, args) ==
    IF argv = NULL \/ name = NULL THEN Emitted(<< >>)
    ELSE IF AnyNull(args) THEN Emitted(<< >>)
    ELSE CASE name = "li" ->
                IF Len(args) # 2 THEN Emitted(<< >>)
                ELSE UNION {
                    LET imm == translate_num("&imm", junk, args[2], LONG_MIN, LONG_MAX).output
                    IN  IF li_fits(imm)
                        THEN Emitted(<<"addiu " \o args[1] \o " $0 " \o args[2] \o "\n">>)
                        ELSE Emitted(<<"lui $at " \o FmtLong(LongShr16(imm)) \o "\n",
                                       "ori " \o args[1] \o " $at "
                                           \o FmtLong(LongLow16(imm)) \o "\n">>)
                    : junk \in Garbage}
           [] name = "push" ->
                IF Len(args) # 1 THEN Emitted(<< >>)
                ELSE Emitted(<<"addiu $sp $sp -4\n",
                               "sw " \o args[1] \o " 0($sp)\n">>)
           [] name = "pop" ->
                IF Len(args) # 1 THEN Emitted(<< >>)
                ELSE Emitted(<<"lw " \o args[1] \o " 0($sp)\n",
                               "addiu $sp $sp 4\n">>)
           [] name = "mod" ->
                IF Len(args) # 3 THEN Emitted(<< >>)
                ELSE Emitted(<<"div " \o args[2] \o " " \o args[3] \o "\n",
                               "mfhi " \o args[1] \o "\n">>)
           [] name = "subu" ->
                IF Len(args) # 3 THEN Emitted(<< >>)
                ELSE Emitted(<<"addiu $at $0 -1\n",
                               "xor $at $at " \o args[3] \o "\n",
                               "addiu $at $at 1\n",
                               "addu " \o args[1] \o " " \o args[2] \o " $at\n">>)
           [] OTHER -> {[ret |-> 1, lines |-> <<write_inst_string(name, args)>>]}

(***************************************************************************)
(* The record of a call: what it was given, what it returned, and the heap *)
(* and the length of the output when it started.                           *)
(***************************************************************************)
Call(op, tabs, out) ==
    [op |-> op,
     h |-> NULL, symtbl |-> NULL, reltbl |-> NULL,       \* table pointers
     name |-> NULL, argv |-> NULL, args |-> << >>, addr |-> <<0, 0>>,
     output |-> NULL, str |-> NULL,                      \* translate_num
     lower |-> Unset, upper |-> Unset, old |-> Unset,
     ret |-> 0,
     val |-> <<0, 0, 0>>,                                \* an int64_t result
     num |-> Unset,                                     \* a long result
     preTables |-> tabs, preLen |-> Len(out)]

NoCall(tabs) == Call("none", tabs, << >>)

\* a call that killed the process leaves nothing to run
Alive == last.ret # CRASH

\* the lines the last call wrote
Written == SubSeq(output, last.preLen + 1, Len(output))

(***************************************************************************)
(* The table interface on its own: one table of either mode, any sequence  *)
(* of add_to_table, get_addr_for_symbol and write_table calls.             *)
(***************************************************************************)
\* bounds of the exploration
MaxLen == 6          \* successful adds per table
MaxDumps == 1        \* write_table calls

T == "T"

\* The names a test draws from.  tables.c only compares names for equality,
\* so the next unused name of the pool stands for every unused name.
NamePool == <<"n1", "n2", "n3", "n4", "n5", "n6", "n7">>

NamesIn(t) == {t.tbl[i].name : i \in 1..t.len}

FreshNames(t) ==
    LET unused == {i \in 1..Len(NamePool) : NamePool[i] \notin NamesIn(t)}
    IN  IF unused = {} THEN {}
        ELSE {NamePool[CHOOSE i \in unused : \A j \in unused : i <= j]}

TestNames(t) == NamesIn(t) \cup FreshNames(t)

\* The addresses a test draws from: the next word-aligned byte offset (offsets
\* grow with the table, so every stored entry carries its own address) and a
\* misaligned one.
TestAddrs(t) == {U32(4 * t.len), U32(4 * t.len + 2)}

TablesInit ==
    /\ \E mode \in {SYMTBL_NON_UNIQUE, SYMTBL_UNIQUE_NAME} :
            tables = [h \in {T} |-> create_table(mode)]
    /\ output = << >>
    /\ last = NoCall(tables)
    /\ log = << >>

AddToTable(h, name, addr) ==
    LET r == add_to_table(tables, h, name, addr)
    IN  /\ tables' = r.tables
        /\ last' = [Call("add", tables, output) EXCEPT
                        !.h = h, !.name = name, !.addr = addr, !.ret = r.ret]
        /\ log' = IF r.ret = 0
                  THEN Append(log, [h |-> h, name |-> name, addr |-> addr])
                  ELSE log
        /\ UNCHANGED output

GetAddrForSymbol(h, name) ==
    /\ last' = [Call("get", tables, output) EXCEPT
                    !.h = h, !.name = name,
                    !.val = get_addr_for_symbol(tables, h, name)]
    /\ UNCHANGED <<tables, output, log>>

WriteTable(h) ==
    /\ output' = output \o write_table(tables, h)
    /\ last' = [Call("write", tables, output) EXCEPT !.h = h]
    /\ UNCHANGED <<tables, log>>

TablesNext ==
    \/ \E h \in {T, NULL}, name \in TestNames(tables[T]) \cup {NULL}, addr \in TestAddrs(tables[T]) :
            /\ tables[T].len < MaxLen
            /\ AddToTable(h, name, addr)
    \/ \E h \in {T, NULL}, name \in TestNames(tables[T]) :
            GetAddrForSymbol(h, name)
    \/ /\ Len(output) < MaxDumps
       /\ WriteTable(T)

SpecTables == TablesInit /\ [][TablesNext]_vars

(***************************************************************************)
(* Pass 2.  The driver has filled the label table (Unique) before pass 2   *)
(* starts; the relocation table (NonUnique) starts empty.                  *)
(***************************************************************************)
SYMTBL == "symtbl"
RELTBL == "reltbl"

\* the labels of the program under assembly, at byte offsets 0, 8 and 131080
Labels == <<[name |-> "L0", addr |-> U32(0)],
            [name |-> "L8", addr |-> U32(8)],
            [name |-> "far", addr |-> U32(131080)]>>

RECURSIVE AddAll(_, _, _, _)
AddAll(tabs, h, entries, i) ==
    IF i > Len(entries) THEN tabs
    ELSE AddAll(add_to_table(tabs, h, entries[i].name, entries[i].addr).tables,
                h, entries, i + 1)

PassTwoInit ==
    /\ tables = AddAll([h \in {SYMTBL, RELTBL} |->
                            create_table(IF h = SYMTBL THEN SYMTBL_UNIQUE_NAME
                                                       ELSE SYMTBL_NON_UNIQUE)],
                       SYMTBL, Labels, 1)
    /\ output = << >>
    /\ last = NoCall(tables)
    /\ log = << >>

TranslateInst(name, args, addr, symtbl, reltbl) ==
    \E o \in translate_inst(tables, name, args, addr, symtbl, reltbl) :
        /\ tables' = o.tables
        /\ output' = output \o o.lines
        /\ last' = [Call("inst", tables, output) EXCEPT
                        !.name = name, !.args = args, !.addr = addr,
                        !.symtbl = symtbl, !.reltbl = reltbl, !.ret = o.ret]
        /\ log' = IF name \in {"j", "jal"} /\ o.ret = 0
                  THEN Append(log, [h |-> "jump", name |-> args[1], addr |-> addr])
                  ELSE log

Mnemonics ==
    {"addu", "or", "slt", "sltu", "sll", "xor", "jr", "addiu", "ori", "lui",
     "lb", "lbu", "lw", "sb", "sw", "beq", "bne", "j", "jal", "mult", "div",
     "mfhi", "mflo"}

\* the mnemonics whose encoders are handed addr and a table
AddressedMnemonics == {"beq", "bne", "j", "jal"}

\* bound of the exploration: the longest argument list
MaxArgs == 3

\* Argument tokens: registers, numbers inside and outside the immediate
\* ranges, labels, and a missing argument.  A token of one kind is an invalid
\* token of the other kinds.
Tokens == {"$t0", "$s1", "4", "40000", "-1", "L0", "L8", "far", NULL}

ArgLists == UNION {[1..n -> Tokens] : n \in 0..MaxArgs}

\* Instruction addresses: next to the labels, at both ends of the branch
\* range, misaligned, and the last word of the address space.
Addrs == {U32(0), U32(2), U32(4), U32(8), U32(131076), U32(131080), <<65535, 65532>>}

\* the (addr, symtbl, reltbl) a call is made with
Linkage(name) ==
    IF name \in AddressedMnemonics
    THEN {<<a, SYMTBL, RELTBL>> : a \in Addrs}
            \cup {<<U32(0), NULL, RELTBL>>, <<U32(0), SYMTBL, NULL>>}
    ELSE {<<U32(0), SYMTBL, RELTBL>>}

\* One call of translate_inst from the state pass 2 starts in, over every
\* mnemonic and argument list.
EncodeNext ==
    /\ last.op = "none"
    /\ \E name \in Mnemonics \cup {"foobar", NULL}, args \in ArgLists :
        \E link \in Linkage(name) :
            TranslateInst(name, args, link[1], link[2], link[3])

SpecEncode == PassTwoInit /\ [][EncodeNext]_vars

(***************************************************************************)
(* Pass 2 as the driver runs it: translate_inst, line after line.          *)
(***************************************************************************)
\* bound of the exploration: the lines written to output
MaxLines == 3

\* the lines of the program under assembly
ProgramLines ==
    {[name |-> "j", args |-> <<"L8">>],
     [name |-> "jal", args |-> <<"L8">>],
     [name |-> "j", args |-> <<"far">>],
     [name |-> "j", args |-> <<NULL>>],
     [name |-> "beq", args |-> <<"$t0", "$s1", "L8">>],
     [name |-> "bne", args |-> <<"$t0", "$s1", "far">>],
     [name |-> "jr", args |-> <<"$t0">>],
     [name |-> "jr", args |-> <<"L8">>],
     [name |-> "addu", args |-> <<"$t0", "$s1", "$t0">>]}

ProgramAddrs == {U32(0), U32(2), U32(4)}

PassTwoNext ==
    /\ Alive
    /\ Len(output) < MaxLines
    /\ \E line \in ProgramLines, addr \in ProgramAddrs :
            TranslateInst(line.name, line.args, addr, SYMTBL, RELTBL)

SpecPass2 == PassTwoInit /\ [][PassTwoNext]_vars

(***************************************************************************)
(* Pass 2 on a program of jumps: the driver hands translate_inst the byte   *)
(* offset of each line, and the relocation table grows past its first       *)
(* capacity.                                                                *)
(***************************************************************************)
\* bound of the exploration: the lines written to output
MaxJumps == 6

\* the lines of the program, each with the tables the call is handed
JumpLines ==
    {[name |-> "j", args |-> <<"L8">>, symtbl |-> SYMTBL, reltbl |-> RELTBL],
     [name |-> "jal", args |-> <<"far">>, symtbl |-> SYMTBL, reltbl |-> RELTBL],
     [name |-> "j", args |-> <<"L8">>, symtbl |-> SYMTBL, reltbl |-> NULL],
     [name |-> "beq", args |-> <<"$t0", "$s1", "L8">>, symtbl |-> SYMTBL, reltbl |-> RELTBL],
     [name |-> "bne", args |-> <<"$t0", "$s1", "L8">>, symtbl |-> NULL, reltbl |-> RELTBL],
     [name |-> "foobar", args |-> <<"$t0">>, symtbl |-> SYMTBL, reltbl |-> RELTBL]}

RelocNext ==
    /\ Alive
    /\ Len(output) < MaxJumps
    /\ \E line \in JumpLines :
            TranslateInst(line.name, line.args, U32(4 * Len(output)),
                          line.symtbl, line.reltbl)

SpecReloc == PassTwoInit /\ [][RelocNext]_vars

(***************************************************************************)
(* One branch, from addresses around the limits of its reach, to labels     *)
(* anywhere in the 32-bit address space.                                    *)
(***************************************************************************)
\* bound of the exploration: how far around a limit the addresses go, in bytes
Slack == 8

\* the labels symtbl holds: low, in the middle and at the top of the space
BranchLabels == <<[name |-> "L0", addr |-> U32(0)],
                  [name |-> "L8", addr |-> U32(8)],
                  [name |-> "far", addr |-> U32(131080)],
                  [name |-> "mid", addr |-> <<32768, 0>>],
                  [name |-> "top", addr |-> <<65535, 65528>>]>>

BranchInit ==
    /\ tables = AddAll([h \in {SYMTBL, RELTBL} |->
                            create_table(IF h = SYMTBL THEN SYMTBL_UNIQUE_NAME
                                                       ELSE SYMTBL_NON_UNIQUE)],
                       SYMTBL, BranchLabels, 1)
    /\ output = << >>
    /\ last = NoCall(tables)
    /\ log = << >>

\* distances from a label, in bytes
Distances ==
    UNION {{k, TWO_POW_SEVENTEEN - k, TWO_POW_SEVENTEEN + k} : k \in 0..Slack}

BranchAddrs ==
    UNION {{Add32(BranchLabels[i].addr, U32(d)), Sub32(BranchLabels[i].addr, U32(d))} :
                i \in 1..Len(BranchLabels), d \in Distances}

BranchNext ==
    /\ last.op = "none"
    /\ \E name \in {"beq", "bne"}, addr \in BranchAddrs,
          label \in {BranchLabels[i].name : i \in 1..Len(BranchLabels)} \cup {"nowhere"} :
            TranslateInst(name, <<"$t0", "$s1", label>>, addr, SYMTBL, RELTBL)

SpecBranch == BranchInit /\ [][BranchNext]_vars

(***************************************************************************)
(* Pass 1: one write_pass_one call on a line of the source program.        *)
(***************************************************************************)
WritePassOne(name, argv, args) ==
    \E o \in write_pass_one(name, argv, args) :
        /\ output' = output \o o.lines
        /\ last' = [Call("pass1", tables, output) EXCEPT
                        !.name = name, !.argv = argv, !.args = args, !.ret = o.ret]
        /\ UNCHANGED <<tables, log>>

PseudoMnemonics == {"li", "push", "pop", "mod", "subu"}

\* Argument tokens of pass 1: registers, immediates on both sides of 65536,
\* of the 16-bit ranges and of the 32-bit ranges, text that is no number, and
\* a missing argument.
PassOneTokens ==
    {"$t0", "$s1", "5", "-1", "40000", "65535", "65536", "100000", "0x10000",
     "4294967296", "-2147483649", "abc", NULL}

PassOneArgLists == UNION {[1..n -> PassOneTokens] : n \in 0..MaxArgs}

PassOneNext ==
    /\ last.op = "none"
    /\ \E name \in PseudoMnemonics \cup {"addu", "foobar", NULL},
          argv \in {"argv", NULL}, args \in PassOneArgLists :
            (argv = NULL => args = << >>) /\ WritePassOne(name, argv, args)

SpecPassOne == PassTwoInit /\ [][PassOneNext]_vars

(***************************************************************************)
(* translate_num on its own.                                               *)
(***************************************************************************)
TranslateNum(outp, old, str, lower_bound, upper_bound) ==
    LET r == translate_num(outp, old, str, lower_bound, upper_bound)
    IN  /\ last' = [Call("num", tables, output) EXCEPT
                        !.output = outp, !.str = str, !.old = old,
                        !.lower = lower_bound, !.upper = upper_bound,
                        !.ret = r.ret, !.num = r.output]
        /\ UNCHANGED <<tables, output, log>>

NumTokens ==
    {"0", "7", "12", "31", "32", "-1", "-5", "+9", "40000", "65535", "65536",
     "-32768", "-32769", "32767", "32768", "0x1F", "0x20", "0xffff", "-0x10",
     "010", "", " 7", "abc", "12abc", "0x", "1 2", "$t0", NULL}

\* the ranges the assembler asks for: shift amounts, signed and unsigned
\* 16-bit immediates, and any long
NumRanges ==
    {<<LongOfInt(0), LongOfInt(31)>>, <<INT16_MIN, INT16_MAX>>,
     <<LongOfInt(0), UINT16_MAX>>, <<LONG_MIN, LONG_MAX>>}

NumNext ==
    /\ last.op = "none"
    /\ \E outp \in {"&num", NULL}, old \in {LongOfInt(0), LongOfInt(77)},
          str \in NumTokens, range \in NumRanges :
            TranslateNum(outp, old, str, range[1], range[2])

SpecNum == PassTwoInit /\ [][NumNext]_vars

(***************************************************************************)
(* Properties of the table interface.                                      *)
(***************************************************************************)
\* the successful adds to table h, in call order
AddsTo(h) == SelectSeq(log, LAMBDA e : e.h = h)

\* the slots of a table that hold entries
Entries(t) == [i \in 1..t.len |-> t.tbl[i]]

\* what a lookup of name must give after the successful adds adds
FirstAdded(adds, name) ==
    LET hits == {i \in 1..Len(adds) : adds[i].name = name}
    IN  IF hits = {} THEN <<-1, 65535, 65535>>
        ELSE LET first == CHOOSE i \in hits : \A j \in hits : i <= j
             IN  <<0, adds[first].addr[1], adds[first].addr[2]>>

\* C1: after any sequence of add_to_table calls (tables of either mode,
\* before and after the storage has grown), get_addr_for_symbol returns the
\* addr of the earliest successfully inserted entry with that name, and -1
\* exactly when no successfully inserted entry has it.
C1_LookupFirstInserted ==
    /\ \A name \in TestNames(tables[T]) :
            get_addr_for_symbol(tables, T, name) = FirstAdded(AddsTo(T), name)
    /\ (last.op = "get" /\ last.h = T) =>
            /\ last.val = FirstAdded(AddsTo(T), last.name)
            /\ (last.val[1] = -1) <=> (\A i \in 1..Len(log) : log[i].name # last.name)

\* a lookup, after the storage has grown, of a name inserted more than once
C1_Witness ==
    /\ last.op = "get" /\ last.h = T
    /\ tables[T].cap > INITIAL_SIZE
    /\ Len(log) >= 6
    /\ Cardinality({i \in 1..Len(log) : log[i].name = last.name}) >= 2
    /\ last.val[1] = 0

\* C2: for a non-null table and name, add_to_table returns -1 exactly when
\* addr is not a multiple of 4 or the table is Unique and already holds the
\* name; a failed add leaves the table unchanged, and every other add
\* returns 0.
C2_AddFailsExactlyWhen ==
    (last.op = "add" /\ last.h # NULL /\ last.name # NULL) =>
        LET pre == last.preTables[last.h]
            misaligned == Int32Val(last.addr) % 4 # 0
            duplicate == /\ pre.mode = SYMTBL_UNIQUE_NAME
                         /\ \E i \in 1..pre.len : pre.tbl[i].name = last.name
        IN  /\ last.ret \in {0, -1}
            /\ (last.ret = -1) <=> (misaligned \/ duplicate)
            /\ (last.ret = -1) => tables = last.preTables

\* a duplicate name refused by a Unique table that already holds entries
C2_Witness ==
    /\ last.op = "add" /\ last.h = T /\ last.name # NULL
    /\ last.ret = -1
    /\ Int32Val(last.addr) % 4 = 0
    /\ tables[T].mode = SYMTBL_UNIQUE_NAME
    /\ tables[T].len >= 2

RECURSIVE Doublings(_)
\* whether cap is INITIAL_SIZE doubled some number of times
Doublings(cap) ==
    \/ cap = 5
    \/ cap > 5 /\ cap % 2 = 0 /\ Doublings(cap \div 2)

\* C3: the entries of a table are exactly the (name, addr) pairs of the
\* successful adds, in call order, across every doubling of the capacity;
\* the capacity never decreases and len <= cap; write_table emits exactly
\* these entries, one line each, in insertion order.
C3_EntriesAreTheAdds ==
    LET t == tables[T]
        adds == AddsTo(T)
    IN  /\ t.len = Len(adds)
        /\ \A i \in 1..Len(adds) :
                t.tbl[i] = [name |-> adds[i].name, addr |-> adds[i].addr]
        /\ t.len <= t.cap
        /\ Len(t.tbl) = t.cap
        /\ Doublings(t.cap)
        /\ t.cap >= last.preTables[T].cap
        /\ last.op = "write" =>
                /\ Len(Written) = Len(adds)
                /\ \A i \in 1..Len(adds) :
                        Written[i] = DecNat(Int32Val(adds[i].addr)) \o "\t"
                                        \o adds[i].name \o "\n"

\* a dump of a table whose storage has grown
C3_Witness ==
    /\ last.op = "write"
    /\ tables[T].cap = 2 * INITIAL_SIZE
    /\ tables[T].len >= 6
    /\ Len(Written) = tables[T].len

(***************************************************************************)
(* Properties of pass 2.                                                   *)
(***************************************************************************)
\* the jumps translate_inst reported as encoded, as relocation records
JumpsEncoded ==
    LET jumps == SelectSeq(log, LAMBDA e : e.h = "jump")
    IN  [i \in 1..Len(jumps) |-> [name |-> jumps[i].name, addr |-> jumps[i].addr]]

\* C4: a translate_inst call for j or jal with one label argument that
\* reports success has appended exactly one record (label, addr) to the end
\* of the relocation table and written exactly opcode << 26; after k
\* successful jumps the table holds their k records, each with its own
\* jump's address.
C4_JumpAppendsRecord ==
    /\ (/\ last.op = "inst"
        /\ last.name \in {"j", "jal"}
        /\ Len(last.args) = 1
        /\ is_valid_label(last.args[1])
        /\ last.ret = 0) =>
            /\ Entries(tables[RELTBL]) =
                    Append(Entries(last.preTables[RELTBL]),
                           [name |-> last.args[1], addr |-> last.addr])
            /\ Written = <<IF last.name = "j" THEN "08000000\n" ELSE "0c000000\n">>
    /\ (\A i \in 1..Len(log) : is_valid_label(log[i].name)) =>
            Entries(tables[RELTBL]) = JumpsEncoded

\* C5: whenever translate_inst returns -1, nothing has been written to the
\* output.
C5_NothingWrittenOnFailure ==
    (last.op = "inst" /\ last.ret = -1) => Len(output) = last.preLen

\* the register numbers of the instruction set
RegisterNumber(token) ==
    CASE token \in {"$zero", "$0"} -> 0
      [] token = "$at" -> 1
      [] token = "$v0" -> 2
      [] token \in {"$a0", "$a1", "$a2", "$a3"} ->
            4 + CHOOSE k \in 0..3 : token = <<"$a0", "$a1", "$a2", "$a3">>[k + 1]
      [] token \in {"$t0", "$t1", "$t2", "$t3"} ->
            8 + CHOOSE k \in 0..3 : token = <<"$t0", "$t1", "$t2", "$t3">>[k + 1]
      [] token \in {"$s0", "$s1", "$s2", "$s3"} ->
            16 + CHOOSE k \in 0..3 : token = <<"$s0", "$s1", "$s2", "$s3">>[k + 1]
      [] token = "$sp" -> 29
      [] token = "$fp" -> 30
      [] token = "$ra" -> 31
      [] OTHER -> -1

\* a beq or bne with two valid registers and a label argument, handed the
\* label table
IsBranchCall ==
    /\ last.op = "inst"
    /\ last.name \in {"beq", "bne"}
    /\ last.symtbl = SYMTBL
    /\ Len(last.args) = 3
    /\ \A i \in 1..3 : last.args[i] # NULL
    /\ RegisterNumber(last.args[1]) # -1
    /\ RegisterNumber(last.args[2]) # -1

\* where the driver put the label of the last call: {} when it has none
TargetOf(label) == {Labels[i].addr : i \in {j \in 1..Len(Labels) : Labels[j].name = label}}

\* target - addr as the integer it is, when it is within +-2^18; 2^20 (out of
\* every range asked about) when it is not
DiffExact(target, addr) ==
    LET dh == target[1] - addr[1]
    IN  IF dh > 4 \/ dh < 0 - 4 THEN 2^20
        ELSE dh * 2^16 + (target[2] - addr[2])

\* target - addr modulo 2^32, read as a signed 32-bit number, with the same
\* convention
DiffWrapped(target, addr) ==
    LET dl == target[2] - addr[2]
        dh == (target[1] - addr[1] + (IF dl < 0 THEN 0 - 1 ELSE 0)) % 2^16
        sh == IF dh >= 2^15 THEN dh - 2^16 ELSE dh
    IN  IF sh > 4 \/ sh < 0 - 4 THEN 2^20
        ELSE sh * 2^16 + (dl % 2^16)

Reachable(diff) == (0 <= diff /\ diff <= 131072) \/ (0 - 131068 <= diff /\ diff < 0)

\* the line of the branch word for the difference diff
BranchLine(diff) ==
    LET opcode == IF last.name = "beq" THEN 4 ELSE 5
        rs == RegisterNumber(last.args[1])
        rt == RegisterNumber(last.args[2])
    IN  Hex4(opcode * 2^10 + rs * 2^5 + rt) \o Hex4(((diff - 4) \div 4) % 2^16) \o "\n"

\* C6 as stated: with target - addr the difference of the two addresses as
\* integers, the branch fails when the label is absent and otherwise succeeds
\* iff 0 <= target - addr <= 131072 or -131068 <= target - addr < 0, writing
\* ((target - addr - 4)/4 & 0xFFFF) | rt<<16 | rs<<21 | opcode<<26.
C6_BranchExactDifference ==
    IsBranchCall =>
        /\ last.ret \in {0, -1}
        /\ TargetOf(last.args[3]) = {} => last.ret = -1
        /\ \A target \in TargetOf(last.args[3]) :
            LET diff == DiffExact(target, last.addr)
            IN  /\ (last.ret = 0) <=> Reachable(diff)
                /\ (last.ret = 0) => Written = <<BranchLine(diff)>>
        /\ (last.ret = -1) => Written = << >>

\* C6 amended: the same with target - addr taken modulo 2^32 as a signed
\* 32-bit number, and the division by 4 rounding down.
C6_BranchWrappedDifference ==
    IsBranchCall =>
        /\ last.ret \in {0, -1}
        /\ TargetOf(last.args[3]) = {} => last.ret = -1
        /\ \A target \in TargetOf(last.args[3]) :
            LET diff == DiffWrapped(target, last.addr)
            IN  /\ (last.ret = 0) <=> Reachable(diff)
                /\ (last.ret = 0) => Written = <<BranchLine(diff)>>
        /\ (last.ret = -1) => Written = << >>

\* beq $t0 $s1 L8 at address 0, L8 at 8: offset 1 under opcode 4
C6_Witness ==
    /\ IsBranchCall
    /\ last.name = "beq"
    /\ last.args = <<"$t0", "$s1", "L8">>
    /\ last.addr = <<0, 0>>
    /\ last.ret = 0
    /\ Written = <<"11110001\n">>

(***************************************************************************)
(* Properties of pass 1 and of translate_num.                              *)
(***************************************************************************)
IsDecimalDigit(c) == \E d \in 1..10 : c = SubSeq("0123456789", d, d)

IsHexDigit(c) == \E d \in 1..22 : c = SubSeq("0123456789abcdefABCDEF", d, d)

\* the token without its sign
Unsigned(token) ==
    IF Len(token) > 0 /\ SubSeq(token, 1, 1) \in {"+", "-"}
    THEN SubSeq(token, 2, Len(token))
    ELSE token

IsHexNumber(body) ==
    /\ Len(body) >= 3
    /\ SubSeq(body, 1, 2) \in {"0x", "0X"}
    /\ \A i \in 3..Len(body) : IsHexDigit(SubSeq(body, i, i))

IsDecimalNumber(body) ==
    /\ Len(body) >= 1
    /\ \A i \in 1..Len(body) : IsDecimalDigit(SubSeq(body, i, i))

\* a decimal or 0x-prefixed hexadecimal integer in its entirety
WellFormedNumber(token) ==
    IsHexNumber(Unsigned(token)) \/ IsDecimalNumber(Unsigned(token))

RECURSIVE Positional(_, _, _)
\* the number the first n digits of body write in the given base
Positional(body, n, base) ==
    IF n = 0 THEN 0
    ELSE LET c == SubSeq(body, n, n)
             d == CHOOSE k \in 0..15 :
                    c \in {SubSeq("0123456789abcdef", k + 1, k + 1),
                           SubSeq("0123456789ABCDEF", k + 1, k + 1)}
         IN  Positional(body, n - 1, base) * base + d

\* the integer a well-formed token of at most 9 digits writes
NumberWritten(token) ==
    LET body == Unsigned(token)
        m == IF IsHexNumber(body)
             THEN Positional(SubSeq(body, 3, Len(body)), Len(body) - 2, 16)
             ELSE Positional(body, Len(body), 10)
    IN  IF SubSeq(token, 1, 1) = "-" THEN 0 - m ELSE m

\* the arities of the pseudo-instructions
Arity(name) ==
    CASE name = "li" -> 2
      [] name \in {"push", "pop"} -> 1
      [] name \in {"mod", "subu"} -> 3

\* the immediates of the token pool that are 65536 or more, with imm >> 16
\* and imm & 0xFFFF in decimal
LargeImmediates ==
    {<<"65536", "1", "0">>, <<"0x10000", "1", "0">>, <<"100000", "1", "34464">>,
     <<"4294967296", "65536", "0">>}

PassOneFails ==
    \/ last.name = NULL
    \/ last.argv = NULL
    \/ \E i \in 1..Len(last.args) : last.args[i] = NULL
    \/ last.name \in PseudoMnemonics /\ Len(last.args) # Arity(last.name)

\* the lines the expansion table promises for the last call
Expansion ==
    LET a == last.args
    IN  CASE last.name = "li" ->
                IF \E l \in LargeImmediates : l[1] = a[2]
                THEN LET l == CHOOSE l \in LargeImmediates : l[1] = a[2]
                     IN  <<"lui $at " \o l[2] \o "\n",
                           "ori " \o a[1] \o " $at " \o l[3] \o "\n">>
                ELSE <<"addiu " \o a[1] \o " $0 " \o a[2] \o "\n">>
          [] last.name = "push" ->
                <<"addiu $sp $sp -4\n", "sw " \o a[1] \o " 0($sp)\n">>
          [] last.name = "pop" ->
                <<"lw " \o a[1] \o " 0($sp)\n", "addiu $sp $sp 4\n">>
          [] last.name = "mod" ->
                <<"div " \o a[2] \o " " \o a[3] \o "\n", "mfhi " \o a[1] \o "\n">>
          [] last.name = "subu" ->
                <<"addiu $at $0 -1\n", "xor $at $at " \o a[3] \o "\n",
                  "addiu $at $at 1\n", "addu " \o a[1] \o " " \o a[2] \o " $at\n">>
          [] OTHER ->
                <<last.name
                    \o (IF Len(a) >= 1 THEN " " \o a[1] ELSE "")
                    \o (IF Len(a) >= 2 THEN " " \o a[2] ELSE "")
                    \o (IF Len(a) >= 3 THEN " " \o a[3] ELSE "")
                    \o (IF Len(a) >= 4 THEN " " \o a[4] ELSE "")
                    \o "\n">>

BeyondBits32 == {"4294967296", "-2147483649"}

\* C8: for li with an immediate outside the signed and the unsigned 32-bit
\* ranges, write_pass_one returns 0 and emits no line.
C8_LiRejectsBeyond32Bits ==
    (/\ last.op = "pass1"
     /\ last.name = "li"
     /\ last.argv # NULL
     /\ Len(last.args) = 2
     /\ last.args[1] # NULL
     /\ last.args[2] \in BeyondBits32) =>
        last.ret = 0 /\ Written = << >>

\* C9: for li with a valid register and a 32-bit immediate, write_pass_one
\* emits the single addiu exactly when the immediate is in [-32768, 32767],
\* and translate_inst encodes that addiu line.
C9_LiAddiuFitsPassTwo ==
    (/\ last.op = "pass1"
     /\ last.name = "li"
     /\ last.argv # NULL
     /\ Len(last.args) = 2
     /\ last.args[1] # NULL /\ last.args[2] # NULL
     /\ RegisterNumber(last.args[1]) # -1
     /\ WellFormedNumber(last.args[2])
     /\ last.args[2] \notin BeyondBits32) =>
        LET imm == NumberWritten(last.args[2])
        IN  /\ (last.ret = 1) <=> (0 - 32768 <= imm /\ imm <= 32767)
            /\ (last.ret = 1) =>
                /\ Written = <<"addiu " \o last.args[1] \o " $0 " \o last.args[2] \o "\n">>
                /\ \A o \in translate_inst(tables, "addiu",
                                           <<last.args[1], "$0", last.args[2]>>,
                                           U32(0), SYMTBL, RELTBL) : o.ret = 0

\* C10: translate_num returns -1 for a token that is not a decimal or
\* 0x-prefixed hexadecimal integer in its entirety and for a well-formed token
\* whose value is outside [lower, upper]; on failure *output is unmodified and
\* on success it holds the value the token writes.
C10_TranslateNumRejectsMalformed ==
    (last.op = "num" /\ last.output # NULL /\ last.str # NULL) =>
        LET wf == WellFormedNumber(last.str)
            v == LongOfInt(NumberWritten(last.str))
        IN  /\ ~wf => last.ret = -1
            /\ (wf /\ (LongLT(v, last.lower) \/ LongLT(last.upper, v))) => last.ret = -1
            /\ (last.ret = -1) => last.num = last.old
            /\ (last.ret = 0) => last.num = v

(***************************************************************************)
(* Frame and numeric properties of pass 2.                                 *)
(***************************************************************************)
\* C11: a translate_inst call never modifies the label table; it changes the
\* relocation table only in a j or jal call, and then only by one record
\* appended after the records it had, which stay as they were and where they
\* were; a call for any other mnemonic, and any call with its required table
\* absent, leaves both tables unchanged.  So the label table stays what the
\* driver made it over any sequence of calls.
C11_TablesFrame ==
    /\ Entries(tables[SYMTBL]) = Labels
    /\ last.op = "inst" =>
        LET pre == last.preTables[RELTBL]
            post == tables[RELTBL]
        IN  /\ tables[SYMTBL] = last.preTables[SYMTBL]
            /\ \/ post = pre
               \/ /\ last.name \in {"j", "jal"}
                  /\ post.len = pre.len + 1
                  /\ post.mode = pre.mode
                  /\ SubSeq(Entries(post), 1, pre.len) = Entries(pre)
            /\ (last.name \notin {"j", "jal"}) => tables = last.preTables
            /\ (last.name \in {"beq", "bne"} /\ last.symtbl = NULL) =>
                    last.ret = -1 /\ tables = last.preTables
            /\ (last.name \in {"j", "jal"} /\ last.reltbl = NULL) =>
                    last.ret = -1 /\ tables = last.preTables

\* the sixth jump: its record is appended to a relocation table that has just
\* been grown from five slots to ten
C11_Witness ==
    /\ last.op = "inst"
    /\ last.name = "jal"
    /\ last.ret = 0
    /\ last.preTables[RELTBL].len = 5
    /\ tables[RELTBL].len = 6
    /\ tables[RELTBL].cap = 10
    /\ tables[RELTBL].tbl[6] = [name |-> "far", addr |-> last.addr]
    /\ tables[RELTBL].tbl[1].name = "L8"

\* a branch between word-aligned addresses that write_branch encoded
IsAlignedBranch ==
    /\ IsBranchCall
    /\ last.ret = 0
    /\ last.addr[2] % 4 = 0
    /\ Len(Written) = 1

\* the address symtbl holds for the label of the last call
TargetInTable ==
    LET t == tables[SYMTBL]
        i == CHOOSE i \in 1..t.len : t.tbl[i].name = last.args[3]
    IN  t.tbl[i].addr

\* the 16-bit immediate field of the written word, sign-extended
FieldWritten ==
    LET f == Positional(SubSeq(Written[1], 5, 8), 4, 16)
    IN  IF f >= 2^15 THEN f - 2^16 ELSE f

\* C12 as stated: for word-aligned addr and target, when write_branch succeeds
\* the word offset (target - addr - 4)/4, with target - addr the difference of
\* the two addresses as integers, lies in [-32768, 32767] and the immediate
\* field of the written word, sign-extended, equals it.
C12_ExactOffsetFits ==
    IsAlignedBranch =>
        LET offset == (DiffExact(TargetInTable, last.addr) - 4) \div 4
        IN  /\ 0 - 32768 <= offset /\ offset <= 32767
            /\ FieldWritten = offset

\* C12 amended: the same with target - addr taken modulo 2^32 as a signed
\* 32-bit number.
C12_WrappedOffsetFits ==
    IsAlignedBranch =>
        LET offset == (DiffWrapped(TargetInTable, last.addr) - 4) \div 4
        IN  /\ TargetInTable[2] % 4 = 0
            /\ 0 - 32768 <= offset /\ offset <= 32767
            /\ FieldWritten = offset

\* the furthest backward branch: offset -32768, written as 8000
C12_Witness ==
    /\ IsAlignedBranch
    /\ last.args[3] = "mid"
    /\ last.addr = <<32769, 65532>>
    /\ FieldWritten = 0 - 32768
    /\ SubSeq(Written[1], 5, 8) = "8000"

=============================================================================
